---- MODULE Spec2Model ----
(***************************************************************************)
(* A model of gen.py: the polymer generator gen, the two calculators       *)
(* calc_stats and calc_ratio, and the batch driver main.                   *)
(*                                                                         *)
(* A polymer is a sequence of the one-character strings "G" and "L".       *)
(* A float is an exact reduced fraction <<numerator, denominator>> with a  *)
(* positive denominator, or <<0, 0>> for inf and nan.  Every g_prob and    *)
(* every random draw of the model is a multiple of 1/4, so the products    *)
(* and comparisons gen makes on them are exact in binary floating point.   *)
(***************************************************************************)
EXTENDS Integers, Sequences, FiniteSets, TLC

VARIABLES
    call,       \* the entry point under execution and its arguments
    pc,         \* position in that entry point
    ret,        \* what a call of gen / calc_stats / calc_ratio ended with
    f,          \* main: the with-block's file handle, "unopened" | "open" | "closed"
    file,       \* main: the characters written through f, in order
    trial,      \* main: iterations of the batch loop begun so far
    polymer,    \* main: the loop's local polymer
    stats,      \* main: the loop's local (GG, LL, GL, LG)
    GGs, LLs, GLs, LGs, ratios,   \* main: the accumulation arrays
    i,          \* main: index of the zero-correction loop
    out,        \* main: the report lines printed so far
    err         \* main: the exception that ended it, or "none"

vars == <<call, pc, ret, f, file, trial, polymer, stats,
          GGs, LLs, GLs, LGs, ratios, i, out, err>>

\* ---------------------------------------------------------------- bounds

\* gen is called with every length in -MaxN .. MaxN
MaxN == 5
\* calc_stats and calc_ratio are called with every string of at most MaxLen characters
MaxLen == 5
\* main's batch size (N = 10000 in the source), scaled down
N == 2
\* main's polymer length (p_length = 100 in the source), scaled down
p_length == 8

\* ------------------------------------------------------------- fractions

Abs(x) == IF x < 0 THEN -x ELSE x

RECURSIVE GCD(_, _)
GCD(a, b) == IF b = 0 THEN a ELSE GCD(b, a % b)

\* the reduced fraction n/d, d > 0
Rat(n, d) == LET g == GCD(Abs(n), d) IN <<n \div g, d \div g>>

RatOfInt(n) == <<n, 1>>
RatAdd(p, q) == Rat(p[1] * q[2] + q[1] * p[2], p[2] * q[2])
RatSub(p, q) == Rat(p[1] * q[2] - q[1] * p[2], p[2] * q[2])
RatMul(p, q) == Rat(p[1] * q[1], p[2] * q[2])
RatLess(p, q) == p[1] * q[2] < q[1] * p[2]

\* Python's int(x) of a float: truncation toward zero
int(q) == IF q[1] >= 0 THEN q[1] \div q[2] ELSE -((-q[1]) \div q[2])

\* ------------------------------------------------------------------- gen

\* a default g_prob of 1.0
DefaultGProbOne == <<1, 1>>

\* the default of gen's parameter g_prob, 0.25
DefaultGProb == <<1, 4>>

\* the values of g_prob the model calls gen with: -0.5 .. 1.5 in steps of 0.25
GProbs == { Rat(k, 4) : k \in -2 .. 6 }

\* the values np.random.random() returns in the model: a sample of [0, 1)
Randoms == { Rat(k, 4) : k \in 0 .. 3 }

IsInjective(s) == \A j, k \in DOMAIN s : j # k => s[j] # s[k]

\* np.random.choice(a, size, replace=True): duplicates allowed
choiceWithReplacement(a, size) ==
    IF (a <= 0 /\ size # 0) \/ size < 0
    THEN [kind |-> "ValueError", samples |-> {}]
    ELSE [kind |-> "ok", samples |-> [1 .. size -> 0 .. (a - 1)]]

\* np.random.choice(a, size, replace=False) for an int a: ValueError when the
\* population is empty and a sample is asked for, when the sample is larger
\* than the population and when the size is negative; otherwise the first
\* size entries of a random permutation of 0 .. a-1
choice(a, size) ==
    IF a <= 0 /\ size # 0 THEN [kind |-> "ValueError", samples |-> {}]
    ELSE IF size > a THEN [kind |-> "ValueError", samples |-> {}]
    ELSE IF size < 0 THEN [kind |-> "ValueError", samples |-> {}]
    ELSE [kind |-> "ok",
          samples |-> { s \in [1 .. size -> 0 .. (a - 1)] : IsInjective(s) }]

\* fixed branch: the arrays polymer_pos can be, or the error choice raises
FixedPositions(n, g_prob) ==
    LET g_idx == choice(n, int(RatMul(RatOfInt(n), g_prob)))
    IN  IF g_idx.kind # "ok"
        THEN { [kind |-> g_idx.kind] }
        ELSE { [kind |-> "ok",
                polymer_pos |-> [k \in 0 .. (n - 1) |->
                                   IF \E j \in DOMAIN s : s[j] = k THEN 1 ELSE 0]]
               : s \in g_idx.samples }

\* the draw compared with <= instead of <
BernoulliPositionsInclusive(n, g_prob) ==
    { [kind |-> "ok",
       polymer_pos |-> [k \in 0 .. (n - 1) |->
                          IF ~RatLess(g_prob, r[k]) THEN 1 ELSE 0]]
      : r \in [0 .. (n - 1) -> Randoms] }

\* non-fixed branch: one draw per position, 1 when the draw is below g_prob
BernoulliPositions(n, g_prob) ==
    { [kind |-> "ok",
       polymer_pos |-> [k \in 0 .. (n - 1) |->
                          IF RatLess(r[k], g_prob) THEN 1 ELSE 0]]
      : r \in [0 .. (n - 1) -> Randoms] }

\* the dimer branch appending "GL" for a G-unit
RECURSIVE BuildPolymerMixed(_, _, _, _, _)
BuildPolymerMixed(polymer_pos, k, n, dimers, acc) ==
    IF k >= n THEN acc
    ELSE BuildPolymerMixed(polymer_pos, k + 1, n, dimers,
            IF ~dimers
            THEN (IF polymer_pos[k] = 1 THEN acc \o <<"G">> ELSE acc \o <<"L">>)
            ELSE (IF polymer_pos[k] = 1 THEN acc \o <<"G", "L">>
                                        ELSE acc \o <<"L", "L">>))

\* the loop that builds the string, from index k on
RECURSIVE BuildPolymer(_, _, _, _, _)
BuildPolymer(polymer_pos, k, n, dimers, acc) ==
    IF k >= n THEN acc
    ELSE BuildPolymer(polymer_pos, k + 1, n, dimers,
            IF ~dimers
            THEN (IF polymer_pos[k] = 1 THEN acc \o <<"G">> ELSE acc \o <<"L">>)
            ELSE (IF polymer_pos[k] = 1 THEN acc \o <<"G", "G">>
                                        ELSE acc \o <<"L", "L">>))

\* the halving of n in dimer mode left out
UnitCountNotHalved(n, dimers) == n

\* the unit count gen works with
UnitCount(n, dimers) == IF dimers THEN int(Rat(n, 2)) ELSE n

\* gen(n, g_prob, fixed, dimers): the set of outcomes over all random draws,
\* each the exception raised or the string returned (with the local
\* polymer_pos it was built from)
gen(n0, g_prob, fixed, dimers) ==
    LET n == UnitCount(n0, dimers)
        positions == IF fixed THEN FixedPositions(n, g_prob)
                              ELSE BernoulliPositions(n, g_prob)
    IN  { IF p.kind = "ok"
          THEN [kind |-> "ok",
                polymer |-> BuildPolymer(p.polymer_pos, 0, n, dimers, <<>>),
                polymer_pos |-> p.polymer_pos]
          ELSE [kind |-> p.kind]
          : p \in positions }

\* ------------------------------------------------------------ calc_stats

\* the mutually exclusive pair tests collapsed into a count of unequal pairs:
\* a mixed pair is counted as G-L whatever its order
PairStepUnordered(a, b, acc) ==
    LET gg == IF a = "G" /\ b = "G" THEN acc[1] + 1 ELSE acc[1]
        ll == IF a = "L" /\ b = "L" THEN acc[2] + 1 ELSE acc[2]
        gl == IF a # b THEN acc[3] + 1 ELSE acc[3]
        lg == IF a = "L" /\ b = "G" THEN acc[4] + 1 ELSE acc[4]
    IN  <<gg, ll, gl, lg>>

\* one iteration of calc_stats's loop on the pair (polymer[i], polymer[i+1]):
\* four independent tests, each bumping its own counter
PairStep(a, b, acc) ==
    LET gg == IF a = "G" /\ b = "G" THEN acc[1] + 1 ELSE acc[1]
        ll == IF a = "L" /\ b = "L" THEN acc[2] + 1 ELSE acc[2]
        gl == IF a = "G" /\ b = "L" THEN acc[3] + 1 ELSE acc[3]
        lg == IF a = "L" /\ b = "G" THEN acc[4] + 1 ELSE acc[4]
    IN  <<gg, ll, gl, lg>>

\* the loop for i in range(n - 1); k is i + 1, sequences being 1-based
RECURSIVE StatsLoop(_, _, _)
StatsLoop(p, k, acc) ==
    IF k > Len(p) - 1 THEN acc
    ELSE StatsLoop(p, k + 1, PairStep(p[k], p[k + 1], acc))

\* calc_stats(polymer) = (num_GGs, num_LLs, num_GLs, num_LGs)
calc_stats(p) == StatsLoop(p, 1, <<0, 0, 0, 0>>)

\* ------------------------------------------------------------ calc_ratio

\* str.count of a one-character string
RECURSIVE count(_, _)
count(p, c) ==
    IF p = <<>> THEN 0
    ELSE (IF Head(p) = c THEN 1 ELSE 0) + count(Tail(p), c)

\* the operands of the division swapped
calc_ratioSwapped(p) ==
    LET num_Gs == count(p, "G")
        num_Ls == count(p, "L")
    IN  IF num_Gs = 0 THEN [kind |-> "ZeroDivisionError"]
        ELSE [kind |-> "ok", value |-> Rat(num_Ls, num_Gs)]

\* calc_ratio(polymer): Python's int / int raises ZeroDivisionError on a zero
\* divisor and is the float quotient otherwise
calc_ratio(p) ==
    LET num_Gs == count(p, "G")
        num_Ls == count(p, "L")
    IN  IF num_Ls = 0 THEN [kind |-> "ZeroDivisionError"]
        ELSE [kind |-> "ok", value |-> Rat(num_Gs, num_Ls)]

\* --------------------------------------------------------- numpy on arrays

\* a float that is inf or nan
NonFinite == <<0, 0>>
IsFinite(q) == q[2] # 0

\* numpy's float division: a zero divisor gives inf or nan, with a warning
\* and no exception
npDivide(p, q) ==
    IF ~IsFinite(p) \/ ~IsFinite(q) \/ q[1] = 0 THEN NonFinite
    ELSE IF q[1] > 0 THEN Rat(p[1] * q[2], p[2] * q[1])
    ELSE Rat(-(p[1] * q[2]), p[2] * (-q[1]))

npAdd(p, q) == IF ~IsFinite(p) \/ ~IsFinite(q) THEN NonFinite ELSE RatAdd(p, q)
npSub(p, q) == IF ~IsFinite(p) \/ ~IsFinite(q) THEN NonFinite ELSE RatSub(p, q)
npMul(p, q) == IF ~IsFinite(p) \/ ~IsFinite(q) THEN NonFinite ELSE RatMul(p, q)

\* an array of ints as floats
AsFloats(xs) == [k \in DOMAIN xs |-> RatOfInt(xs[k])]

RECURSIVE npSum(_)
npSum(xs) == IF xs = <<>> THEN RatOfInt(0) ELSE npAdd(Head(xs), npSum(Tail(xs)))

\* np.mean(xs)
npMean(xs) == npDivide(npSum(xs), RatOfInt(Len(xs)))

\* np.std(xs) squared: the mean of the squared deviations from the mean
npVar(xs) ==
    LET m == npMean(xs)
    IN  npMean([k \in DOMAIN xs |-> npMul(npSub(xs[k], m), npSub(xs[k], m))])

\* (np.std(xs) / np.sqrt(N - 1)) squared
SemSquared(xs) == npDivide(npVar(xs), RatOfInt(N - 1))

\* xs / ys + c, elementwise
QuotientPlus(xs, ys, c) ==
    [k \in DOMAIN xs |-> npAdd(npDivide(xs[k], ys[k]), RatOfInt(c))]

\* ------------------------------------------------------------ the calls

Alphabet == {"G", "L", "X"}

\* every string of at most MaxLen characters
Strings == UNION { [1 .. k -> Alphabet] : k \in 0 .. MaxLen }

GenCalls == [fn : {"gen"}, n : (-MaxN) .. MaxN, g_prob : GProbs,
             fixed : BOOLEAN, dimers : BOOLEAN]
StatsCalls == [fn : {"calc_stats"}, polymer : Strings]
RatioCalls == [fn : {"calc_ratio"}, polymer : Strings]
MainCalls == [fn : {"main"}]

Init ==
    /\ call \in GenCalls \cup StatsCalls \cup RatioCalls \cup MainCalls
    /\ pc = "call"
    /\ ret = [kind |-> "none"]
    /\ f = "unopened"
    /\ file = <<>>
    /\ trial = 0
    /\ polymer = <<>>
    /\ stats = <<0, 0, 0, 0>>
    /\ GGs = <<>> /\ LLs = <<>> /\ GLs = <<>> /\ LGs = <<>> /\ ratios = <<>>
    /\ i = 0
    /\ out = <<>>
    /\ err = "none"

mainVars == <<f, file, trial, polymer, stats, GGs, LLs, GLs, LGs, ratios, i, out, err>>

\* a call of gen runs to its return or to the exception it raises
GenCall ==
    /\ call.fn = "gen" /\ pc = "call"
    /\ ret' \in gen(call.n, call.g_prob, call.fixed, call.dimers)
    /\ pc' = "returned"
    /\ UNCHANGED <<call, mainVars>>

CalcStatsCall ==
    /\ call.fn = "calc_stats" /\ pc = "call"
    /\ ret' = [kind |-> "ok", value |-> calc_stats(call.polymer)]
    /\ pc' = "returned"
    /\ UNCHANGED <<call, mainVars>>

CalcRatioCall ==
    /\ call.fn = "calc_ratio" /\ pc = "call"
    /\ ret' = calc_ratio(call.polymer)
    /\ pc' = "returned"
    /\ UNCHANGED <<call, mainVars>>

\* ------------------------------------------------------------------ main

\* an exception inside the with block: the block closes f and main ends
RaiseInWith(e) ==
    /\ err' = e
    /\ f' = "closed"
    /\ pc' = "raised"

\* the arrays are created and the output file is opened for writing
MainOpen ==
    /\ call.fn = "main" /\ pc = "call"
    /\ GGs' = <<>> /\ LLs' = <<>> /\ GLs' = <<>> /\ LGs' = <<>> /\ ratios' = <<>>
    /\ f' = "open"
    /\ file' = <<>>
    /\ pc' = "loop"
    /\ UNCHANGED <<call, ret, trial, polymer, stats, i, out, err>>

\* open() raises OSError (the directory data/ is missing, say)
MainOpenFails ==
    /\ call.fn = "main" /\ pc = "call"
    /\ GGs' = <<>> /\ LLs' = <<>> /\ GLs' = <<>> /\ LGs' = <<>> /\ ratios' = <<>>
    /\ err' = "OSError"
    /\ pc' = "raised"
    /\ UNCHANGED <<call, ret, f, file, trial, polymer, stats, i, out>>

\* polymer = gen(p_length, fixed=True, dimers=False)
MainGen ==
    /\ call.fn = "main" /\ pc = "loop" /\ trial < N
    /\ trial' = trial + 1
    /\ \E r \in gen(p_length, DefaultGProb, TRUE, FALSE) :
          IF r.kind = "ok"
          THEN /\ polymer' = r.polymer
               /\ pc' = "write"
               /\ UNCHANGED <<f, err>>
          ELSE /\ RaiseInWith(r.kind)
               /\ UNCHANGED polymer
    /\ UNCHANGED <<call, ret, file, stats, GGs, LLs, GLs, LGs, ratios, i, out>>

\* the write of the line is skipped: the polymer is not persisted
MainWriteSkipped ==
    /\ call.fn = "main" /\ pc = "write"
    /\ pc' = "stats"
    /\ UNCHANGED <<call, ret, f, file, trial, polymer, stats,
                   GGs, LLs, GLs, LGs, ratios, i, out, err>>

\* f.write(polymer + '\n')
MainWrite ==
    /\ call.fn = "main" /\ pc = "write"
    /\ file' = file \o polymer \o <<"\n">>
    /\ pc' = "stats"
    /\ UNCHANGED <<call, ret, f, trial, polymer, stats,
                   GGs, LLs, GLs, LGs, ratios, i, out, err>>

\* f.write raises OSError: some proper prefix of the line, possibly empty,
\* has reached the file
MainWriteFails ==
    /\ call.fn = "main" /\ pc = "write"
    /\ \E k \in 0 .. Len(polymer) :
          file' = file \o SubSeq(polymer \o <<"\n">>, 1, k)
    /\ RaiseInWith("OSError")
    /\ UNCHANGED <<call, ret, trial, polymer, stats,
                   GGs, LLs, GLs, LGs, ratios, i, out>>

\* (GG, LL, GL, LG) = calc_stats(polymer)
MainStats ==
    /\ call.fn = "main" /\ pc = "stats"
    /\ stats' = calc_stats(polymer)
    /\ pc' = "appendGG"
    /\ UNCHANGED <<call, ret, f, file, trial, polymer,
                   GGs, LLs, GLs, LGs, ratios, i, out, err>>

MainAppendGG ==
    /\ call.fn = "main" /\ pc = "appendGG"
    /\ GGs' = Append(GGs, stats[1])
    /\ pc' = "appendLL"
    /\ UNCHANGED <<call, ret, f, file, trial, polymer, stats,
                   LLs, GLs, LGs, ratios, i, out, err>>

MainAppendLL ==
    /\ call.fn = "main" /\ pc = "appendLL"
    /\ LLs' = Append(LLs, stats[2])
    /\ pc' = "appendGL"
    /\ UNCHANGED <<call, ret, f, file, trial, polymer, stats,
                   GGs, GLs, LGs, ratios, i, out, err>>

MainAppendGL ==
    /\ call.fn = "main" /\ pc = "appendGL"
    /\ GLs' = Append(GLs, stats[3])
    /\ pc' = "appendLG"
    /\ UNCHANGED <<call, ret, f, file, trial, polymer, stats,
                   GGs, LLs, LGs, ratios, i, out, err>>

\* LGs.append(float(LG)): the same number, as a float
MainAppendLG ==
    /\ call.fn = "main" /\ pc = "appendLG"
    /\ LGs' = Append(LGs, stats[4])
    /\ pc' = "ratio"
    /\ UNCHANGED <<call, ret, f, file, trial, polymer, stats,
                   GGs, LLs, GLs, ratios, i, out, err>>

\* ratios.append(calc_ratio(polymer)): nothing catches the ZeroDivisionError
MainRatio ==
    /\ call.fn = "main" /\ pc = "ratio"
    /\ LET r == calc_ratio(polymer)
       IN  IF r.kind = "ok"
           THEN /\ ratios' = Append(ratios, r.value)
                /\ pc' = "loop"
                /\ UNCHANGED <<f, err>>
           ELSE /\ RaiseInWith(r.kind)
                /\ UNCHANGED ratios
    /\ UNCHANGED <<call, ret, file, trial, polymer, stats,
                   GGs, LLs, GLs, LGs, i, out>>

\* the loop is over: the with block closes f and the lists become arrays
MainExitLoop ==
    /\ call.fn = "main" /\ pc = "loop" /\ trial >= N
    /\ f' = "closed"
    /\ pc' = "report"
    /\ UNCHANGED <<call, ret, file, trial, polymer, stats,
                   GGs, LLs, GLs, LGs, ratios, i, out, err>>

\* ---------------------------------------------------------- main's report

\* A printed line is its label and the value handed to the formatter; the
\* rendering to two decimals is not modelled.  The value of a SEM line is the
\* square of the quantity printed, the model having no square root.
Line(label, value) == [label |-> label, value |-> value]
Text(label) == [label |-> label]
Rule == Text("--------------------")

MeanAndSem(name, xs) ==
    << Line("Mean " \o name, npMean(xs)), Line("SEM " \o name, SemSquared(xs)), Rule >>

\* the prints from "n:" to the rule after "SEM L-Gs"
RawReport ==
    << Line("n", RatOfInt(p_length)), Rule >>
    \o MeanAndSem("G-Gs", AsFloats(GGs))
    \o MeanAndSem("L-Ls", AsFloats(LLs))
    \o MeanAndSem("G-Ls", AsFloats(GLs))
    \o MeanAndSem("L-Gs", AsFloats(LGs))

\* the prints from "OTHER METRICS" on
DerivedReport ==
    LET L_L == QuotientPlus(AsFloats(LLs), AsFloats(LGs), 1)
        L_G == QuotientPlus(AsFloats(GGs), AsFloats(GLs), 1)
        R_c == QuotientPlus(AsFloats(GGs), AsFloats(GLs), 0)
    IN  << Text("OTHER METRICS"),
           Line("L_L (mean)", npMean(L_L)), Line("L_L (sem)", SemSquared(L_L)), Text(""),
           Line("L_G (mean)", npMean(L_G)), Line("L_G (sem)", SemSquared(L_G)), Text(""),
           Line("R_c (mean)", npMean(R_c)), Line("R_c (sem)", SemSquared(R_c)), Text(""),
           Line("Ratio of L/G (mean)", npMean(ratios)) >>

MainReportRaw ==
    /\ call.fn = "main" /\ pc = "report"
    /\ out' = out \o RawReport
    /\ i' = 0
    /\ pc' = "correct"
    /\ UNCHANGED <<call, ret, f, file, trial, polymer, stats,
                   GGs, LLs, GLs, LGs, ratios, err>>

\* the correction leaves the entry as it is
CorrectedKept(x) == x

\* if x == 0: x = 1
Corrected(x) == IF x = 0 THEN 1 ELSE x

\* one iteration of the correction loop, on index i (i + 1 in a 1-based sequence)
MainCorrect ==
    /\ call.fn = "main" /\ pc = "correct" /\ i < Len(LGs)
    /\ LGs' = [LGs EXCEPT ![i + 1] = Corrected(LGs[i + 1])]
    /\ GLs' = [GLs EXCEPT ![i + 1] = Corrected(GLs[i + 1])]
    /\ i' = i + 1
    /\ UNCHANGED <<call, pc, ret, f, file, trial, polymer, stats,
                   GGs, LLs, ratios, out, err>>

MainReportDerived ==
    /\ call.fn = "main" /\ pc = "correct" /\ i >= Len(LGs)
    /\ out' = out \o DerivedReport
    /\ pc' = "done"
    /\ UNCHANGED <<call, ret, f, file, trial, polymer, stats,
                   GGs, LLs, GLs, LGs, ratios, i, err>>

\* ------------------------------------------------------- the specification

Next ==
    \/ GenCall
    \/ CalcStatsCall
    \/ CalcRatioCall
    \/ MainOpen
    \/ MainOpenFails
    \/ MainGen
    \/ MainWrite
    \/ MainWriteFails
    \/ MainStats
    \/ MainAppendGG
    \/ MainAppendLL
    \/ MainAppendGL
    \/ MainAppendLG
    \/ MainRatio
    \/ MainExitLoop
    \/ MainReportRaw
    \/ MainCorrect
    \/ MainReportDerived

Spec == Init /\ [][Next]_vars

\* ------------------------------------------------------------- the claims

GenReturned == call.fn = "gen" /\ pc = "returned"

Zero == RatOfInt(0)
One == RatOfInt(1)

\* a configuration the specification calls invalid
InvalidConfig(c) == RatLess(c.g_prob, Zero) \/ RatLess(One, c.g_prob) \/ c.n < 0
ValidConfig(c) == ~InvalidConfig(c)

\* the positions of p holding c, counted without str.count
Occurrences(p, c) == Cardinality({ k \in DOMAIN p : p[k] = c })

\* floor(n / 2) and floor(units x g_prob) for n, units >= 0 and g_prob >= 0
Units(c) == IF c.dimers THEN c.n \div 2 ELSE c.n
GUnits(c) == (Units(c) * c.g_prob[1]) \div c.g_prob[2]
Width(c) == IF c.dimers THEN 2 ELSE 1

AllSymbol(p, c) == \A k \in DOMAIN p : p[k] = c

\* C1: a call of gen with g_prob < 0, g_prob > 1 or n < 0 ends in an error
\* and returns no polymer, whatever fixed and dimers are.
C1_InvalidConfigRejected ==
    (GenReturned /\ InvalidConfig(call)) => ret.kind # "ok"

\* C2: calc_ratio raises ZeroDivisionError exactly when the polymer holds no
\* 'L'; otherwise it returns the finite quotient (number of 'G') / (number of
\* 'L'), which is 2.0 for "GGL".
C2_RatioDividesByLs ==
    (call.fn = "calc_ratio" /\ pc = "returned") =>
        LET gs == Occurrences(call.polymer, "G")
            ls == Occurrences(call.polymer, "L")
        IN  /\ ret.kind \in {"ok", "ZeroDivisionError"}
            /\ ret.kind = "ZeroDivisionError" <=> ls = 0
            /\ ret.kind = "ok" =>
                  /\ IsFinite(ret.value)
                  /\ ret.value[1] * ls = gs * ret.value[2]
            /\ call.polymer = <<"G", "G", "L">> => ret = [kind |-> "ok", value |-> <<2, 1>>]

C2_Witness ==
    /\ call.fn = "calc_ratio" /\ pc = "returned"
    /\ call.polymer = <<"G", "G", "G">>
    /\ ret.kind = "ZeroDivisionError"

\* the indices k whose pair (p[k], p[k+1]) is (a, b)
PairsOf(p, a, b) == { k \in 1 .. (Len(p) - 1) : p[k] = a /\ p[k + 1] = b }

\* C3: for a polymer over {G, L} of length n, calc_stats returns the number of
\* adjacent pairs of each ordered kind: four non-negative counts that sum to
\* n - 1 when n >= 1 and are all 0 when n <= 1.
C3_PairCountsPartition ==
    (call.fn = "calc_stats" /\ pc = "returned"
        /\ \A k \in DOMAIN call.polymer : call.polymer[k] \in {"G", "L"}) =>
        LET p == call.polymer
            v == ret.value
        IN  /\ \A k \in 1 .. 4 : v[k] >= 0
            /\ v[1] = Cardinality(PairsOf(p, "G", "G"))
            /\ v[2] = Cardinality(PairsOf(p, "L", "L"))
            /\ v[3] = Cardinality(PairsOf(p, "G", "L"))
            /\ v[4] = Cardinality(PairsOf(p, "L", "G"))
            /\ Len(p) >= 1 => v[1] + v[2] + v[3] + v[4] = Len(p) - 1
            /\ Len(p) <= 1 => v = <<0, 0, 0, 0>>

C3_Witness ==
    /\ call.fn = "calc_stats" /\ pc = "returned"
    /\ call.polymer = <<"G", "L", "L", "G", "G">>
    /\ ret.value = <<1, 1, 1, 1>>

C5_LengthAndAlphabet ==
    (GenReturned /\ ValidConfig(call)) =>
        /\ ret.kind = "ok"
        /\ Len(ret.polymer) = Width(call) * Units(call)
        /\ \A k \in DOMAIN ret.polymer : ret.polymer[k] \in {"G", "L"}

C5_Witness ==
    /\ GenReturned /\ call.dimers /\ ~call.fixed
    /\ call.n = 5 /\ call.g_prob = <<3, 4>>
    /\ ret.kind = "ok"
    /\ Len(ret.polymer) = 4

\* C6: in dimer mode, for a valid configuration and either sampling policy,
\* the symbols at positions 2k and 2k+1 of the polymer are equal for every
\* unit k, and they are the symbol of unit k: units come out in position order.
C6_DimerUnitsUniform ==
    (GenReturned /\ call.dimers /\ ValidConfig(call)) =>
        /\ ret.kind = "ok"
        /\ Len(ret.polymer) = 2 * Units(call)
        /\ \A k \in 0 .. (Units(call) - 1) :
              LET unit == IF ret.polymer_pos[k] = 1 THEN "G" ELSE "L"
              IN  /\ ret.polymer[2 * k + 1] = ret.polymer[2 * k + 2]
                  /\ ret.polymer[2 * k + 1] = unit

C6_Witness ==
    /\ GenReturned /\ call.dimers /\ ~call.fixed
    /\ call.n = 4 /\ call.g_prob = <<1, 2>>
    /\ ret.kind = "ok"
    /\ ret.polymer = <<"G", "G", "L", "L">>

\* C7: for a length n >= 0, g_prob = 0 gives an all-'L' polymer in fixed and
\* in non-fixed mode, and g_prob = 1 with fixed gives an all-'G' polymer, both
\* of the full length; n = 0 gives the empty string in every mode, no error.
C7_BoundaryCases ==
    GenReturned =>
        /\ (call.g_prob = Zero /\ call.n >= 0) =>
              /\ ret.kind = "ok"
              /\ Len(ret.polymer) = Width(call) * Units(call)
              /\ AllSymbol(ret.polymer, "L")
        /\ (call.g_prob = One /\ call.fixed /\ call.n >= 0) =>
              /\ ret.kind = "ok"
              /\ Len(ret.polymer) = Width(call) * Units(call)
              /\ AllSymbol(ret.polymer, "G")
        /\ call.n = 0 => (ret.kind = "ok" /\ ret.polymer = <<>>)

C7_Witness ==
    /\ GenReturned /\ ~call.fixed /\ ~call.dimers
    /\ call.n = 4 /\ call.g_prob = Zero
    /\ ret.kind = "ok"
    /\ ret.polymer = <<"L", "L", "L", "L">>

\* -------------------------------------------------------- claims about main

InMain == call.fn = "main"

\* the file split at its newlines: the terminated lines, and what follows the
\* last newline
RECURSIVE SplitLines(_, _, _)
SplitLines(chars, cur, done) ==
    IF chars = <<>> THEN [lines |-> done, rest |-> cur]
    ELSE IF Head(chars) = "\n" THEN SplitLines(Tail(chars), <<>>, Append(done, cur))
    ELSE SplitLines(Tail(chars), Append(cur, Head(chars)), done)

FileLines == SplitLines(file, <<>>, <<>>).lines
FileRest == SplitLines(file, <<>>, <<>>).rest

IsPrefix(s, t) == Len(s) <= Len(t) /\ SubSeq(t, 1, Len(s)) = s

IsPolymer(p) == Len(p) = p_length /\ \A k \in DOMAIN p : p[k] \in {"G", "L"}

AfterLoop == pc \in {"report", "correct", "done"}
BetweenWriteAndRatio == pc \in {"stats", "appendGG", "appendLL", "appendGL", "appendLG", "ratio"}

\* lines written against entries accumulated
C8_Counts ==
    InMain =>
        LET lines == FileLines
        IN  /\ \A len \in {Len(GGs), Len(LLs), Len(GLs), Len(LGs), Len(ratios)} :
                  len <= Len(lines) /\ Len(lines) <= len + 1
            /\ BetweenWriteAndRatio =>
                  /\ Len(lines) = trial
                  /\ lines[trial] = polymer
                  /\ Len(ratios) = trial - 1

\* the file on normal completion
C8_Completion ==
    (InMain /\ AfterLoop) =>
        LET lines == FileLines
        IN  /\ f = "closed"
            /\ Len(lines) = N /\ FileRest = <<>>
            /\ \A k \in 1 .. N :
                  LET counts == calc_stats(lines[k])
                  IN  /\ IsPolymer(lines[k])
                      /\ GGs[k] = counts[1]
                      /\ LLs[k] = counts[2]
                      /\ ratios[k] = calc_ratio(lines[k]).value

\* the handle after a failure inside the loop
C8_Failure == (InMain /\ pc = "raised" /\ trial >= 1) => f = "closed"

\* what a step does to the file: nothing written is ever lost, the file
\* changes only under the open handle at the write, and a write that succeeds
\* appends exactly the polymer just generated and a newline
C8_Step ==
    /\ IsPrefix(file, file')
    /\ file' # file => (InMain /\ pc = "write" /\ f = "open")
    /\ (InMain /\ pc = "write" /\ pc' = "stats") => file' = file \o polymer \o <<"\n">>

\* C8: main writes each polymer as one newline-terminated line before its
\* statistics are computed and appended, so the lines written number at least
\* the entries of each accumulation array and at most one more; on normal
\* completion the file is exactly the N polymers, one per line, in generation
\* order; after a failed trial the written lines remain and the handle is closed.
C8_EveryPolymerPersisted ==
    /\ [](C8_Counts /\ C8_Completion /\ C8_Failure)
    /\ [][C8_Step]_vars

C8_Witness ==
    /\ InMain /\ pc = "done" /\ f = "closed" /\ err = "none"
    /\ Len(FileLines) = N /\ FileRest = <<>>
    /\ FileLines[N] = polymer

\* the k-th line of a file of lines of p_length characters
TrialLine(k) == SubSeq(file, (k - 1) * (p_length + 1) + 1, k * (p_length + 1) - 1)

\* the counts of trial k before any correction, recomputed from the file
RawStats(k) == calc_stats(TrialLine(k))
RawColumn(c) == [k \in 1 .. N |-> RawStats(k)[c]]

Printed(label) == \E k \in DOMAIN out : out[k].label = label
ValueOf(label) == out[CHOOSE k \in DOMAIN out : out[k].label = label].value

RawLabels ==
    {"Mean G-Gs", "SEM G-Gs", "Mean L-Ls", "SEM L-Ls",
     "Mean G-Ls", "SEM G-Ls", "Mean L-Gs", "SEM L-Gs"}
DerivedLabels ==
    {"OTHER METRICS", "L_L (mean)", "L_L (sem)", "L_G (mean)", "L_G (sem)",
     "R_c (mean)", "R_c (sem)", "Ratio of L/G (mean)"}
DerivedValues ==
    {"L_L (mean)", "L_L (sem)", "L_G (mean)", "L_G (sem)", "R_c (mean)", "R_c (sem)"}

ZeroToOne(x) == IF x = 0 THEN 1 ELSE x

\* C9: the correction pass turns exactly the zero entries of LGs and GLs into
\* 1 and changes nothing else; it runs after the raw means and SEMs are
\* printed, which are therefore those of the uncorrected counts, and before
\* any derived metric, so that no derived metric divides by zero.
C9_ZeroCorrection ==
    InMain =>
        /\ pc = "report" =>
              /\ out = <<>>
              /\ GLs = RawColumn(3) /\ LGs = RawColumn(4)
        /\ pc \in {"correct", "done"} =>
              /\ \A label \in RawLabels : Printed(label)
              /\ \A k \in 1 .. N :
                    LET raw == RawStats(k)
                    IN  /\ GGs[k] = raw[1] /\ LLs[k] = raw[2]
                        /\ GLs[k] = IF k <= i THEN ZeroToOne(raw[3]) ELSE raw[3]
                        /\ LGs[k] = IF k <= i THEN ZeroToOne(raw[4]) ELSE raw[4]
        /\ pc = "correct" => \A label \in DerivedLabels : ~Printed(label)
        /\ pc = "done" =>
              /\ i = N
              /\ ValueOf("Mean G-Gs") = npMean(AsFloats(RawColumn(1)))
              /\ ValueOf("Mean L-Ls") = npMean(AsFloats(RawColumn(2)))
              /\ ValueOf("Mean G-Ls") = npMean(AsFloats(RawColumn(3)))
              /\ ValueOf("Mean L-Gs") = npMean(AsFloats(RawColumn(4)))
              /\ ValueOf("SEM G-Ls") = SemSquared(AsFloats(RawColumn(3)))
              /\ ValueOf("SEM L-Gs") = SemSquared(AsFloats(RawColumn(4)))
              /\ \A k \in 1 .. N : GLs[k] # 0 /\ LGs[k] # 0
              /\ \A label \in DerivedValues : Printed(label) /\ IsFinite(ValueOf(label))
              /\ ValueOf("R_c (mean)") =
                    npMean([k \in 1 .. N |->
                              LET raw == RawStats(k)
                              IN  Rat(raw[1], ZeroToOne(raw[3]))])
              /\ ValueOf("L_L (mean)") =
                    npMean([k \in 1 .. N |->
                              LET raw == RawStats(k)
                              IN  Rat(raw[2] + ZeroToOne(raw[4]), ZeroToOne(raw[4]))])

C9_Witness ==
    /\ InMain /\ pc = "done"
    /\ RawStats(1)[4] = 0 /\ LGs[1] = 1
    /\ RawStats(1)[3] # 0 /\ GLs[1] = RawStats(1)[3]
    /\ RawStats(N)[3] = 0 /\ GLs[N] = 1

\* p_length as main sets it
SourcePLength == 100

\* C10: in fixed mode with 0 <= g_prob < 1 and at least one unit, gen selects
\* fewer G-units than there are units, so its polymer holds an 'L' and
\* calc_ratio succeeds on it; under main's configuration every trial's
\* polymer holds exactly int(p_length x 0.25) 'G' (25 of 100) and 'L'
\* elsewhere (75 of 100), no trial raises ZeroDivisionError, and a run that
\* gets past the loop has made all N trials.
C10_RatioNeverDividesByZero ==
    /\ LET g == int(RatMul(RatOfInt(SourcePLength), DefaultGProb))
       IN  g = 25 /\ SourcePLength - g = 75
    /\ (GenReturned /\ call.fixed /\ call.n >= 0 /\ Units(call) >= 1
          /\ ~RatLess(call.g_prob, Zero) /\ RatLess(call.g_prob, One)) =>
          /\ ret.kind = "ok"
          /\ GUnits(call) < Units(call)
          /\ Occurrences(ret.polymer, "L") >= 1
          /\ calc_ratio(ret.polymer).kind = "ok"
    /\ InMain =>
          /\ err \in {"none", "OSError"}
          /\ (pc = "write" \/ BetweenWriteAndRatio) =>
                /\ Occurrences(polymer, "G") = p_length \div 4
                /\ Occurrences(polymer, "L") = p_length - (p_length \div 4)
                /\ Occurrences(polymer, "L") >= 1
          /\ AfterLoop =>
                /\ trial = N /\ Len(ratios) = N
                /\ \A k \in 1 .. N :
                      ratios[k] = Rat(p_length \div 4, p_length - (p_length \div 4))

C10_Witness ==
    /\ InMain /\ pc = "loop" /\ trial = N /\ err = "none"
    /\ Len(ratios) = N
    /\ Occurrences(polymer, "G") = p_length \div 4

====
